---- MODULE Spec2Model ----
(***************************************************************************)
(* Model of the citizen-services backend: the translation adapter          *)
(* (OpenRouterTranslate.py and the wrappers of app.py), the chat adapter   *)
(* (ask_gemini), the chat and translate endpoints, and the record store    *)
(* handlers for complaints and applications.                               *)
(*                                                                         *)
(* Text is a sequence of one-character strings, so that strip(), lower(),  *)
(* split() and len() are computed as Python computes them.  A fixed        *)
(* message or tag of the source is one token of such a sequence (the       *)
(* non-ASCII tags of _mock_translate are written in ASCII).  Python's None *)
(* is the one-token sequence None.                                         *)
(***************************************************************************)
EXTENDS Integers, Sequences, FiniteSets, TLC

VARIABLES translator, gemini_model, last, fail_replies,
          pc, req, session_id, source_language, target_language,
          text_for_llm, bot_reply_en, final_reply, calls, saved, response,
          chat_history,
          complaints, applications, services, db_resp,
          hist_resp,
          upd, last_write

adapterVars == <<translator, gemini_model, last, fail_replies>>
chatVars == <<pc, req, session_id, source_language, target_language,
              text_for_llm, bot_reply_en, final_reply, calls, saved, response,
              chat_history>>
storeVars == <<complaints, applications, services, db_resp>>
historyVars == <<hist_resp>>
workerVars == <<upd, last_write>>
vars == <<translator, gemini_model, last, fail_replies,
          pc, req, session_id, source_language, target_language,
          text_for_llm, bot_reply_en, final_reply, calls, saved, response,
          chat_history,
          complaints, applications, services, db_resp,
          hist_resp,
          upd, last_write>>

----------------------------------------------------------------------------
(* Python values and string methods *)

None == <<"None">>

Truthy(s) == s # None /\ s # <<>>

\* Python's `a or b`
Or(a, b) == IF Truthy(a) THEN a ELSE b

IsSpace(c) == c \in {" ", "\t", "\n"}

RECURSIVE lstrip(_)
lstrip(s) == IF s # <<>> /\ IsSpace(Head(s)) THEN lstrip(Tail(s)) ELSE s

RECURSIVE rstrip(_)
rstrip(s) ==
    IF s # <<>> /\ IsSpace(s[Len(s)]) THEN rstrip(SubSeq(s, 1, Len(s) - 1)) ELSE s

strip(s) == rstrip(lstrip(s))

lower_char(c) ==
    CASE c = "E" -> "e"
      [] c = "N" -> "n"
      [] c = "H" -> "h"
      [] c = "I" -> "i"
      [] c = "T" -> "t"
      [] c = "A" -> "a"
      [] OTHER -> c

lower(s) == [i \in 1..Len(s) |-> lower_char(s[i])]

\* str.split(): the maximal runs of non-whitespace characters, in order
RECURSIVE split_from(_, _)
split_from(s, word) ==
    IF s = <<>> THEN (IF word = <<>> THEN <<>> ELSE <<word>>)
    ELSE IF IsSpace(Head(s))
         THEN (IF word = <<>> THEN <<>> ELSE <<word>>) \o split_from(Tail(s), <<>>)
         ELSE split_from(Tail(s), Append(word, Head(s)))

split(s) == split_from(s, <<>>)

\* "\n".join(parts)
RECURSIVE join_nl(_)
join_nl(parts) ==
    IF parts = <<>> THEN <<>>
    ELSE IF Len(parts) = 1 THEN parts[1]
    ELSE parts[1] \o <<"\n">> \o join_nl(Tail(parts))

RECURSIVE non_empty(_)
non_empty(parts) ==
    IF parts = <<>> THEN <<>>
    ELSE IF Truthy(Head(parts)) THEN <<Head(parts)>> \o non_empty(Tail(parts))
    ELSE non_empty(Tail(parts))

EN == <<"e", "n">>
HI == <<"h", "i">>
TA == <<"t", "a">>
AUTO == <<"a", "u", "t", "o">>

----------------------------------------------------------------------------
(* Translation adapter: OpenRouterTranslate *)

\* The nine bracketed tags of _mock_translate (transliterated), each followed
\* by the space of the f-string.
MOCK_TAGS ==
    (<<"h", "i">> :> <<"[Hindi anuvad]", " ">>) @@
    (<<"t", "a">> :> <<"[Tamil molipeyarppu]", " ">>) @@
    (<<"t", "e">> :> <<"[Telugu anuvadam]", " ">>) @@
    (<<"b", "n">> :> <<"[Bangla anubad]", " ">>) @@
    (<<"m", "r">> :> <<"[Marathi anuvad]", " ">>) @@
    (<<"g", "u">> :> <<"[Gujarati anuvad]", " ">>) @@
    (<<"k", "n">> :> <<"[Kannada anuvada]", " ">>) @@
    (<<"m", "l">> :> <<"[Malayalam vivarttanam]", " ">>) @@
    (<<"p", "a">> :> <<"[Punjabi anuvad]", " ">>)

\* _mock_translate without its "hi" branch
_mock_translate_mut_no_hindi(text, target) ==
    IF target \in DOMAIN MOCK_TAGS \ {HI} THEN MOCK_TAGS[target] \o text ELSE text

_mock_translate(text, target) ==
    IF target \in DOMAIN MOCK_TAGS THEN MOCK_TAGS[target] \o text ELSE text

\* A remote completion: the call raised, or it returned message content
\* (None when the response carries no text).
RemoteFail == [ok |-> FALSE, content |-> None]
RemoteOk(c) == [ok |-> TRUE, content |-> c]

\* The result of an adapter call: val is the returned text, remote the
\* number of remote completions requested, raised whether an exception left
\* the call (val then holds the error text).
Returned(v, n) == [val |-> v, remote |-> n, raised |-> FALSE]
Raised(e, n) == [val |-> e, remote |-> n, raised |-> TRUE]

\* OpenRouterTranslate.translate
translate(text, source, target, remote) ==
    IF translator # "initialized"
    THEN Returned(_mock_translate(text, target), 0)
    ELSE IF remote.ok /\ remote.content # None
         THEN Returned(strip(remote.content), 1)
         ELSE Returned(_mock_translate(text, target), 1)

\* the for/else of detect_language: the first whitespace-separated word of
\* exactly two characters, "en" when there is none
RECURSIVE first_two_char_word(_)
first_two_char_word(words) ==
    IF words = <<>> THEN EN
    ELSE IF Len(Head(words)) = 2 THEN Head(words)
    ELSE first_two_char_word(Tail(words))

\* OpenRouterTranslate.detect_language
ort_detect_language(text, remote) ==
    IF translator # "initialized" THEN Returned(EN, 0)
    ELSE IF ~remote.ok \/ remote.content = None THEN Returned(EN, 1)
    ELSE LET detected_lang == lower(strip(remote.content))
         IN  Returned(IF Len(detected_lang) > 2
                      THEN first_two_char_word(split(detected_lang))
                      ELSE detected_lang,
                      1)

----------------------------------------------------------------------------
(* app.py wrappers of the adapters *)

UNAVAILABLE(target) == <<"[">> \o target \o <<" translation unavailable]", " ">>
TRANSLATION_ERROR(e, text) == <<"[Translation error]", " ">> \o e \o <<"\n">> \o text

\* translate_text comparing the two codes without lower()
translate_text_mut_case_sensitive(text, source, target, remote) ==
    IF ~Truthy(target) \/ (Truthy(source) /\ source = target)
    THEN Returned(text, 0)
    ELSE IF translator # "none"
         THEN LET t == translate(text, Or(source, AUTO), target, remote)
              IN  IF t.raised
                  THEN Returned(TRANSLATION_ERROR(t.val, text), t.remote)
                  ELSE t
         ELSE Returned(UNAVAILABLE(target) \o text, 0)

\* translate_text; the except branch is kept although translate catches every
\* exception of its remote call itself
translate_text(text, source, target, remote) ==
    IF ~Truthy(target) \/ (Truthy(source) /\ lower(source) = lower(target))
    THEN Returned(text, 0)
    ELSE IF translator # "none"
         THEN LET t == translate(text, Or(source, AUTO), target, remote)
              IN  IF t.raised
                  THEN Returned(TRANSLATION_ERROR(t.val, text), t.remote)
                  ELSE t
         ELSE Returned(UNAVAILABLE(target) \o text, 0)

detect_language(text, remote) ==
    IF translator # "none"
    THEN LET d == ort_detect_language(text, remote)
         IN  IF d.raised THEN Returned(EN, d.remote) ELSE d
    ELSE Returned(EN, 0)

GEMINI_NOT_CONFIGURED ==
    <<"Gemini is not configured. Please set GEMINI_API_KEY and install google-generativeai.">>
GEMINI_ERROR == <<"[Gemini error]", " ">>
EMPTY_RESPONSE == <<"[Empty response]">>
NO_TEXT_RETURNED == <<"[No text returned by Gemini]">>

\* A generate_content outcome: it raised with error text err, or it returned
\* a response with a text property (None when missing or empty) and, when
\* has_candidates, the text parts of its first candidate.
GeminiRaise(e) ==
    [raised |-> TRUE, err |-> e, text |-> None, has_candidates |-> FALSE, parts |-> <<>>]
GeminiResp(t, c, p) ==
    [raised |-> FALSE, err |-> <<>>, text |-> t, has_candidates |-> c, parts |-> p]

\* ask_gemini dropping the error text from its failure reply
ask_gemini_mut_fixed_message(prompt, g) ==
    IF gemini_model = "none" THEN Returned(GEMINI_NOT_CONFIGURED, 0)
    ELSE IF g.raised THEN Returned(GEMINI_ERROR, 1)
    ELSE IF Truthy(g.text) THEN Returned(strip(g.text), 1)
    ELSE IF g.has_candidates
         THEN Returned(Or(strip(join_nl(non_empty(g.parts))), EMPTY_RESPONSE), 1)
         ELSE Returned(NO_TEXT_RETURNED, 1)

\* ask_gemini without its try/except
ask_gemini_mut_no_except(prompt, g) ==
    IF gemini_model = "none" THEN Returned(GEMINI_NOT_CONFIGURED, 0)
    ELSE IF g.raised THEN Raised(g.err, 1)
    ELSE IF Truthy(g.text) THEN Returned(strip(g.text), 1)
    ELSE IF g.has_candidates
         THEN Returned(Or(strip(join_nl(non_empty(g.parts))), EMPTY_RESPONSE), 1)
         ELSE Returned(NO_TEXT_RETURNED, 1)

ask_gemini(prompt, g) ==
    IF gemini_model = "none" THEN Returned(GEMINI_NOT_CONFIGURED, 0)
    ELSE IF g.raised THEN Returned(GEMINI_ERROR \o g.err, 1)
    ELSE IF Truthy(g.text) THEN Returned(strip(g.text), 1)
    ELSE IF g.has_candidates
         THEN Returned(Or(strip(join_nl(non_empty(g.parts))), EMPTY_RESPONSE), 1)
         ELSE Returned(NO_TEXT_RETURNED, 1)

----------------------------------------------------------------------------
(* Inputs *)

MaxTextLen == 2
MaxRespLen == 4

RECURSIVE SeqsUpTo(_, _)
SeqsUpTo(S, n) ==
    IF n = 0 THEN {<<>>}
    ELSE LET shorter == SeqsUpTo(S, n - 1)
         IN  shorter \cup {Append(s, c) : s \in shorter, c \in S}

\* texts handed to the adapters
Texts == SeqsUpTo({" ", "q"}, MaxTextLen)
\* language arguments: missing, empty, and codes in either case
LangArgs == {None, <<>>, EN, <<"E", "N">>, HI, <<"H", "i">>, TA}
\* what the remote translation model may answer
TranslateRemotes == {RemoteFail, RemoteOk(None), RemoteOk(<<" ", "r", " ">>)}
\* what the remote detection model may answer
DetectRemotes ==
    {RemoteFail, RemoteOk(None)} \cup
    {RemoteOk(c) : c \in SeqsUpTo({" ", "h", "I"}, MaxRespLen)}
\* what generate_content may do
GeminiErrors == {<<"timeout">>, <<"quota">>}
GeminiOutcomes ==
    {GeminiRaise(e) : e \in GeminiErrors} \cup
    {GeminiResp(<<" ", "a", " ">>, FALSE, <<>>),
     GeminiResp(None, FALSE, <<>>),
     GeminiResp(<<>>, TRUE, <<>>),
     GeminiResp(None, TRUE, <<<<"a">>, <<>>, <<"b", " ">>>>)}

----------------------------------------------------------------------------
(* Direct calls of the adapters and the translate endpoint *)

NoCall ==
    [op |-> "none", text |-> <<>>, source |-> None, target |-> None,
     rem |-> RemoteFail, g |-> GeminiRaise(<<>>),
     out |-> Returned(<<>>, 0), status |-> 0]

\* The adapters are called one at a time: a call is made when no result is
\* pending, and Return hands the pending result to the caller.
CallTranslateText ==
    /\ last.op = "none"
    /\ \E text \in Texts, s \in LangArgs, t \in LangArgs, r \in TranslateRemotes :
        /\ last' = [NoCall EXCEPT !.op = "translate_text", !.text = text,
                        !.source = s, !.target = t, !.rem = r,
                        !.out = translate_text(text, s, t, r)]
        /\ UNCHANGED <<translator, gemini_model, fail_replies>>
    /\ UNCHANGED <<chatVars, storeVars, historyVars, workerVars>>

CallDetectLanguage ==
    /\ last.op = "none"
    /\ \E text \in Texts, r \in DetectRemotes :
        /\ last' = [NoCall EXCEPT !.op = "detect_language", !.text = text,
                        !.rem = r, !.out = detect_language(text, r)]
        /\ UNCHANGED <<translator, gemini_model, fail_replies>>
    /\ UNCHANGED <<chatVars, storeVars, historyVars, workerVars>>

\* fail_replies records the replies ask_gemini gave for failed remote calls
CallAskGemini ==
    /\ last.op = "none"
    /\ \E prompt \in Texts, g \in GeminiOutcomes :
        LET out == ask_gemini(prompt, g)
        IN  /\ last' = [NoCall EXCEPT !.op = "ask_gemini", !.text = prompt,
                            !.g = g, !.out = out]
            /\ fail_replies' = IF gemini_model # "none" /\ g.raised
                               THEN fail_replies \cup {out.val}
                               ELSE fail_replies
            /\ UNCHANGED <<translator, gemini_model>>
    /\ UNCHANGED <<chatVars, storeVars, historyVars, workerVars>>

\* POST /api/translate; an exception leaving the handler is answered by the
\* 500 error handler
api_translate(data, r) ==
    LET text == strip(Or(data.text, <<>>))
        source == Or(lower(strip(Or(data.source_language, <<>>))), EN)
        target == Or(lower(strip(Or(data.target_language, <<>>))), EN)
        t == translate_text(text, source, target, r)
    IN  IF ~Truthy(text)
        THEN [status |-> 400, ok |-> FALSE, translated_text |-> None,
              source_language |-> None, target_language |-> None, remote |-> 0]
        ELSE IF t.raised
        THEN [status |-> 500, ok |-> FALSE, translated_text |-> None,
              source_language |-> None, target_language |-> None,
              remote |-> t.remote]
        ELSE [status |-> 200, ok |-> TRUE, translated_text |-> t.val,
              source_language |-> source, target_language |-> target,
              remote |-> t.remote]

TranslateBodies ==
    [text : {None, <<" ">>, <<" ", "q">>},
     source_language : {None, <<" ">>, <<"E", "N">>, <<" ", "H", "i">>, TA},
     target_language : {None, <<" ">>, EN, <<"H", "I", " ">>, TA}]

ApiTranslate ==
    /\ last.op = "none"
    /\ pc = "idle"
    /\ \E data \in TranslateBodies, r \in TranslateRemotes :
        LET resp == api_translate(data, r)
        IN  /\ last' = [NoCall EXCEPT !.op = "api_translate", !.text = data.text,
                            !.source = data.source_language,
                            !.target = data.target_language, !.rem = r,
                            !.out = [val |-> resp.translated_text,
                                     remote |-> resp.remote,
                                     raised |-> FALSE,
                                     source_language |-> resp.source_language,
                                     target_language |-> resp.target_language,
                                     ok |-> resp.ok],
                            !.status = resp.status]
            /\ UNCHANGED <<translator, gemini_model, fail_replies>>
    /\ UNCHANGED <<chatVars, storeVars, historyVars, workerVars>>

Return ==
    /\ last.op # "none"
    /\ last' = NoCall
    /\ UNCHANGED <<translator, gemini_model, fail_replies>>
    /\ UNCHANGED <<chatVars, storeVars, historyVars, workerVars>>

NextAdapters ==
    \/ Return
    \/ CallTranslateText
    \/ CallDetectLanguage
    \/ CallAskGemini
    \/ ApiTranslate

----------------------------------------------------------------------------
(* POST /api/chat, one step per stage of api_chat *)

MaxHistory == 1

ChatBodies ==
    [message : {None, <<" ">>, <<" ", "q">>},
     session_id : {None, <<"s">>},
     source_language : {None, <<" ">>, EN, <<"H", "i">>},
     target_language : {None, <<" ">>, EN, <<"T", "A", " ">>}]
ChatDetectRemotes == {RemoteFail, RemoteOk(<<>>), RemoteOk(<<"h", "I", " ">>)}
ChatTranslateRemotes == {RemoteFail, RemoteOk(<<" ", "r", " ">>)}
ChatGeminiOutcomes ==
    {GeminiRaise(<<"timeout">>), GeminiResp(<<" ", "a", " ">>, FALSE, <<>>)}
\* uuid.uuid4().hex
GeneratedSessionIds == {<<"u", "1">>}

NoBody ==
    [message |-> None, session_id |-> None, source_language |-> None,
     target_language |-> None]
NoResponse ==
    [status |-> 0, ok |-> FALSE, session_id |-> None, source_language |-> None,
     target_language |-> None, bot_reply |-> None]

\* the chat_history row save_chat inserts (id is AUTOINCREMENT, rows are never
\* deleted)
chat_row(sid, user_message, bot_message, source_lang, target_lang) ==
    [id |-> Len(chat_history) + 1, session_id |-> sid,
     user_message |-> user_message, bot_message |-> bot_message,
     source_lang |-> source_lang, target_lang |-> target_lang]

\* INSERT INTO chat_history (...) VALUES (...); commit
save_chat(sid, user_message, bot_message, source_lang, target_lang) ==
    Append(chat_history,
           chat_row(sid, user_message, bot_message, source_lang, target_lang))

\* api_chat testing the message without strip()
ChatReceive_mut_no_strip ==
    /\ pc = "idle"
    /\ last.op = "none"
    /\ Len(chat_history) < MaxHistory
    /\ \E data \in ChatBodies, gen \in GeneratedSessionIds :
        LET message == Or(data.message, <<>>)
        IN  /\ req' = data
            /\ IF ~Truthy(message)
               THEN /\ response' = [NoResponse EXCEPT !.status = 400]
                    /\ session_id' = None
                    /\ pc' = "done"
               ELSE /\ response' = NoResponse
                    /\ session_id' = Or(data.session_id, gen)
                    /\ pc' = "resolve"
    /\ UNCHANGED <<source_language, target_language, text_for_llm, bot_reply_en,
                   final_reply, calls, saved, chat_history>>
    /\ UNCHANGED <<adapterVars, storeVars, historyVars, workerVars>>

\* lines 285-290: read the body, reject an empty message, fix the session id
ChatReceive ==
    /\ pc = "idle"
    /\ last.op = "none"
    /\ Len(chat_history) < MaxHistory
    /\ \E data \in ChatBodies, gen \in GeneratedSessionIds :
        LET message == strip(Or(data.message, <<>>))
        IN  /\ req' = data
            /\ IF ~Truthy(message)
               THEN /\ response' = [NoResponse EXCEPT !.status = 400]
                    /\ session_id' = None
                    /\ pc' = "done"
               ELSE /\ response' = NoResponse
                    /\ session_id' = Or(data.session_id, gen)
                    /\ pc' = "resolve"
    /\ UNCHANGED <<source_language, target_language, text_for_llm, bot_reply_en,
                   final_reply, calls, saved, chat_history>>
    /\ UNCHANGED <<adapterVars, storeVars, historyVars, workerVars>>

\* an exception left the handler: the 500 error handler answers
ServerError == [NoResponse EXCEPT !.status = 500]

\* lines 292-293
ChatResolveLanguages ==
    /\ pc = "resolve"
    /\ \E r \in ChatDetectRemotes :
        LET message == strip(Or(req.message, <<>>))
            explicit == lower(strip(Or(req.source_language, <<>>)))
            d == detect_language(message, r)
            src == IF Truthy(explicit) THEN explicit ELSE d.val
        IN  /\ calls' = IF Truthy(explicit) THEN calls
                        ELSE Append(calls, "detect_language")
            /\ IF ~Truthy(explicit) /\ d.raised
               THEN /\ response' = ServerError
                    /\ pc' = "done"
                    /\ UNCHANGED <<source_language, target_language>>
               ELSE /\ source_language' = src
                    /\ target_language' =
                          lower(strip(Or(req.target_language, Or(src, EN))))
                    /\ pc' = "to_english"
                    /\ UNCHANGED response
    /\ UNCHANGED <<req, session_id, text_for_llm, bot_reply_en, final_reply,
                   saved, chat_history>>
    /\ UNCHANGED <<adapterVars, storeVars, historyVars, workerVars>>

\* lines 296-298
ChatTranslateToEnglish ==
    /\ pc = "to_english"
    /\ \E r \in ChatTranslateRemotes :
        LET message == strip(Or(req.message, <<>>))
            t == translate_text(message, source_language, EN, r)
        IN  IF source_language # EN
            THEN /\ calls' = Append(calls, "translate_to_english")
                 /\ IF t.raised
                    THEN /\ response' = ServerError
                         /\ pc' = "done"
                         /\ UNCHANGED text_for_llm
                    ELSE /\ text_for_llm' = t.val
                         /\ pc' = "generate"
                         /\ UNCHANGED response
            ELSE /\ text_for_llm' = message
                 /\ calls' = calls
                 /\ pc' = "generate"
                 /\ UNCHANGED response
    /\ UNCHANGED <<req, session_id, source_language, target_language,
                   bot_reply_en, final_reply, saved, chat_history>>
    /\ UNCHANGED <<adapterVars, storeVars, historyVars, workerVars>>

\* line 301
ChatGenerateReply ==
    /\ pc = "generate"
    /\ \E g \in ChatGeminiOutcomes :
        LET a == ask_gemini(text_for_llm, g)
        IN  IF a.raised
            THEN /\ response' = ServerError
                 /\ pc' = "done"
                 /\ UNCHANGED bot_reply_en
            ELSE /\ bot_reply_en' = a.val
                 /\ pc' = "to_target"
                 /\ UNCHANGED response
    /\ calls' = Append(calls, "ask_gemini")
    /\ UNCHANGED <<req, session_id, source_language, target_language,
                   text_for_llm, final_reply, saved, chat_history>>
    /\ UNCHANGED <<adapterVars, storeVars, historyVars, workerVars>>

\* lines 304-306
ChatTranslateToTarget ==
    /\ pc = "to_target"
    /\ \E r \in ChatTranslateRemotes :
        LET t == translate_text(bot_reply_en, EN, target_language, r)
        IN  IF Truthy(target_language) /\ target_language # EN
            THEN /\ calls' = Append(calls, "translate_to_target")
                 /\ IF t.raised
                    THEN /\ response' = ServerError
                         /\ pc' = "done"
                         /\ UNCHANGED final_reply
                    ELSE /\ final_reply' = t.val
                         /\ pc' = "persist"
                         /\ UNCHANGED response
            ELSE /\ final_reply' = bot_reply_en
                 /\ calls' = calls
                 /\ pc' = "persist"
                 /\ UNCHANGED response
    /\ UNCHANGED <<req, session_id, source_language, target_language,
                   text_for_llm, bot_reply_en, saved, chat_history>>
    /\ UNCHANGED <<adapterVars, storeVars, historyVars, workerVars>>

\* lines 309-312 with save_chat: the INSERT commits, or it raises and the
\* handler logs the failure
ChatPersist ==
    /\ pc = "persist"
    /\ \E committed \in BOOLEAN :
        /\ saved' = committed
        /\ chat_history' =
              IF committed
              THEN save_chat(session_id, strip(Or(req.message, <<>>)),
                             final_reply, source_language, target_language)
              ELSE chat_history
    /\ calls' = Append(calls, "save_chat")
    /\ pc' = "respond"
    /\ UNCHANGED <<req, session_id, source_language, target_language,
                   text_for_llm, bot_reply_en, final_reply, response>>
    /\ UNCHANGED <<adapterVars, storeVars, historyVars, workerVars>>

\* api_chat answering 500 when save_chat failed
chat_response_mut_500_on_save_failure ==
    IF saved
    THEN [status |-> 200, ok |-> TRUE, session_id |-> session_id,
          source_language |-> source_language,
          target_language |-> target_language, bot_reply |-> final_reply]
    ELSE [NoResponse EXCEPT !.status = 500]

\* lines 314-320
chat_response ==
    [status |-> 200, ok |-> TRUE, session_id |-> session_id,
     source_language |-> source_language,
     target_language |-> target_language, bot_reply |-> final_reply]

ChatRespond ==
    /\ pc = "respond"
    /\ response' = chat_response
    /\ pc' = "done"
    /\ UNCHANGED <<req, session_id, source_language, target_language,
                   text_for_llm, bot_reply_en, final_reply, calls, saved,
                   chat_history>>
    /\ UNCHANGED <<adapterVars, storeVars, historyVars, workerVars>>

\* the response has been sent: the handler's locals are gone, the table stays
ChatFinish ==
    /\ pc = "done"
    /\ pc' = "idle"
    /\ req' = NoBody
    /\ session_id' = None
    /\ source_language' = None
    /\ target_language' = None
    /\ text_for_llm' = None
    /\ bot_reply_en' = None
    /\ final_reply' = None
    /\ calls' = <<>>
    /\ saved' = FALSE
    /\ response' = NoResponse
    /\ UNCHANGED chat_history
    /\ UNCHANGED <<adapterVars, storeVars, historyVars, workerVars>>

NextChat ==
    \/ ChatReceive
    \/ ChatResolveLanguages
    \/ ChatTranslateToEnglish
    \/ ChatGenerateReply
    \/ ChatTranslateToTarget
    \/ ChatPersist
    \/ ChatRespond
    \/ ChatFinish

----------------------------------------------------------------------------
(* Record store: complaints (app.py) and applications (setup_applications.py) *)

MaxComplaints == 2
MaxApplications == 2

OPEN == <<"open">>
SUBMITTED == <<"Submitted">>

\* service_id of the rows populate_services.py inserts
SEEDED_SERVICES ==
    {<<"revenue">>, <<"municipal">>, <<"health">>, <<"education">>,
     <<"social_welfare">>, <<"agriculture">>}

ComplaintBodies ==
    [name : {<<" ", "n">>},
     contact : {None},
     issue : {None, <<" ">>, <<" ", "p", " ">>}]
StatusBodies == [status : {None, <<" ">>, <<"resolved">>, <<" ", "closed">>}]
ComplaintIds == 0..(MaxComplaints + 1)

NoDbResp == [op |-> "none", status |-> 0, id |-> 0, data |-> <<>>]

\* create_complaint testing the issue without strip()
create_complaint_mut_no_strip(rows, data) ==
    LET name == strip(Or(data.name, <<>>))
        contact == strip(Or(data.contact, <<>>))
        issue == Or(data.issue, <<>>)
    IN  IF ~Truthy(issue)
        THEN [status |-> 400, rows |-> rows, id |-> 0]
        ELSE [status |-> 200,
              rows |-> Append(rows, [id |-> Len(rows) + 1, name |-> name,
                                     contact |-> contact, issue |-> issue,
                                     status |-> OPEN]),
              id |-> Len(rows) + 1]

\* POST /api/complaints: the response status, the table afterwards and the
\* returned id (AUTOINCREMENT; rows are never deleted)
create_complaint(rows, data) ==
    LET name == strip(Or(data.name, <<>>))
        contact == strip(Or(data.contact, <<>>))
        issue == strip(Or(data.issue, <<>>))
    IN  IF ~Truthy(issue)
        THEN [status |-> 400, rows |-> rows, id |-> 0]
        ELSE [status |-> 200,
              rows |-> Append(rows, [id |-> Len(rows) + 1, name |-> name,
                                     contact |-> contact, issue |-> issue,
                                     status |-> OPEN]),
              id |-> Len(rows) + 1]

\* GET /api/complaints/<id>
get_complaint(rows, comp_id) ==
    IF \E i \in DOMAIN rows : rows[i].id = comp_id
    THEN [status |-> 200, rows |-> rows, id |-> comp_id]
    ELSE [status |-> 404, rows |-> rows, id |-> comp_id]

\* GET /api/complaints: SELECT * FROM complaints ORDER BY created_at DESC;
\* the order among rows of one timestamp is the engine's, so the answer is
\* kept as the set of rows
list_complaints(rows) ==
    [status |-> 200, rows |-> rows, list |-> {rows[i] : i \in DOMAIN rows}]

\* update_complaint with an UPDATE that has no WHERE clause
update_complaint_mut_no_where(rows, comp_id, data) ==
    LET status == strip(Or(data.status, <<>>))
    IN  IF ~Truthy(status)
        THEN [status |-> 400, rows |-> rows, id |-> comp_id]
        ELSE [status |-> 200,
              rows |-> [i \in DOMAIN rows |-> [rows[i] EXCEPT !.status = status]],
              id |-> comp_id]

\* update_complaint inserting a row when no row has the id
update_complaint_mut_upsert(rows, comp_id, data) ==
    LET status == strip(Or(data.status, <<>>))
    IN  IF ~Truthy(status)
        THEN [status |-> 400, rows |-> rows, id |-> comp_id]
        ELSE IF \E i \in DOMAIN rows : rows[i].id = comp_id
        THEN [status |-> 200,
              rows |-> [i \in DOMAIN rows |->
                          IF rows[i].id = comp_id
                          THEN [rows[i] EXCEPT !.status = status]
                          ELSE rows[i]],
              id |-> comp_id]
        ELSE [status |-> 200,
              rows |-> Append(rows, [id |-> comp_id, name |-> <<>>,
                                     contact |-> <<>>, issue |-> <<>>,
                                     status |-> status]),
              id |-> comp_id]

\* PATCH /api/complaints/<id>: UPDATE complaints SET status = ? WHERE id = ?
update_complaint(rows, comp_id, data) ==
    LET status == strip(Or(data.status, <<>>))
    IN  IF ~Truthy(status)
        THEN [status |-> 400, rows |-> rows, id |-> comp_id]
        ELSE [status |-> 200,
              rows |-> [i \in DOMAIN rows |->
                          IF rows[i].id = comp_id
                          THEN [rows[i] EXCEPT !.status = status]
                          ELSE rows[i]],
              id |-> comp_id]

CreateComplaint ==
    /\ Len(complaints) < MaxComplaints
    /\ \E data \in ComplaintBodies :
        LET r == create_complaint(complaints, data)
        IN  /\ complaints' = r.rows
            /\ db_resp' = [op |-> "create_complaint", status |-> r.status,
                           id |-> r.id, data |-> data]
    /\ UNCHANGED <<applications, services>>
    /\ UNCHANGED <<adapterVars, chatVars, historyVars, workerVars>>

GetComplaint ==
    /\ \E comp_id \in ComplaintIds :
        LET r == get_complaint(complaints, comp_id)
        IN  db_resp' = [op |-> "get_complaint", status |-> r.status,
                        id |-> r.id, data |-> <<>>]
    /\ UNCHANGED <<complaints, applications, services>>
    /\ UNCHANGED <<adapterVars, chatVars, historyVars, workerVars>>

ListComplaints ==
    /\ LET r == list_complaints(complaints)
       IN  db_resp' = [op |-> "list_complaints", status |-> r.status,
                       id |-> 0, data |-> r.list]
    /\ UNCHANGED <<complaints, applications, services>>
    /\ UNCHANGED <<adapterVars, chatVars, historyVars, workerVars>>

UpdateComplaint ==
    /\ \E comp_id \in ComplaintIds, data \in StatusBodies :
        LET r == update_complaint(complaints, comp_id, data)
        IN  /\ complaints' = r.rows
            /\ db_resp' = [op |-> "update_complaint", status |-> r.status,
                           id |-> r.id, data |-> data]
    /\ UNCHANGED <<applications, services>>
    /\ UNCHANGED <<adapterVars, chatVars, historyVars, workerVars>>

\* the form fields of POST /api/apply
ApplyForms ==
    [service_id : {<<>>, <<"health">>, <<"bogus">>},
     name : {<<"Asha">>},
     email : {<<"a@x.com">>},
     phone : {<<>>},
     purpose : {<<"certificate">>}]
\* the randomly generated 8-character ticket numbers
Tickets == {<<"AB12CD34">>, <<"ZZ99YY88">>}

\* /api/apply without the existence query on services
apply_mut_no_service_check(svcs, rows, form, ticket) ==
    IF ~Truthy(form.service_id) \/ ~Truthy(form.name) \/ ~Truthy(form.email)
       \/ ~Truthy(form.purpose)
    THEN [status |-> 400, rows |-> rows, ticket_number |-> None]
    ELSE IF \E i \in DOMAIN rows : rows[i].ticket_number = ticket
    THEN [status |-> 500, rows |-> rows, ticket_number |-> None]
    ELSE [status |-> 200,
          rows |-> Append(rows, [id |-> Len(rows) + 1,
                                 service_id |-> form.service_id,
                                 name |-> form.name, email |-> form.email,
                                 phone |-> form.phone, purpose |-> form.purpose,
                                 ticket_number |-> ticket,
                                 status |-> SUBMITTED]),
          ticket_number |-> ticket]

\* POST /api/apply, after sections 3, 4.5 and 6 of the specification (the
\* handler is in the other version of the application file).
\* Required fields first (400), then the pre-insert existence query on services
\* (404), then the INSERT; ticket_number is UNIQUE in the schema, so a
\* colliding ticket makes the INSERT fail (500).
apply(svcs, rows, form, ticket) ==
    IF ~Truthy(form.service_id) \/ ~Truthy(form.name) \/ ~Truthy(form.email)
       \/ ~Truthy(form.purpose)
    THEN [status |-> 400, rows |-> rows, ticket_number |-> None]
    ELSE IF form.service_id \notin svcs
    THEN [status |-> 404, rows |-> rows, ticket_number |-> None]
    ELSE IF \E i \in DOMAIN rows : rows[i].ticket_number = ticket
    THEN [status |-> 500, rows |-> rows, ticket_number |-> None]
    ELSE [status |-> 200,
          rows |-> Append(rows, [id |-> Len(rows) + 1,
                                 service_id |-> form.service_id,
                                 name |-> form.name, email |-> form.email,
                                 phone |-> form.phone, purpose |-> form.purpose,
                                 ticket_number |-> ticket,
                                 status |-> SUBMITTED]),
          ticket_number |-> ticket]

Apply ==
    /\ Len(applications) < MaxApplications
    /\ \E form \in ApplyForms, ticket \in Tickets :
        LET r == apply(services, applications, form, ticket)
        IN  /\ applications' = r.rows
            /\ db_resp' = [op |-> "apply", status |-> r.status,
                           id |-> Len(r.rows), data |-> form]
    /\ UNCHANGED <<complaints, services>>
    /\ UNCHANGED <<adapterVars, chatVars, historyVars, workerVars>>

NextStore ==
    \/ CreateComplaint
    \/ GetComplaint
    \/ ListComplaints
    \/ UpdateComplaint
    \/ Apply

----------------------------------------------------------------------------
(* Status updates handled concurrently, one request thread per worker *)

NumWorkers == 2
Workers == 1..NumWorkers

Tables == {"complaints", "applications"}
\* the <int:id> of the PATCH requests the workers handle: all on one record
WorkerIds == {1}

\* the JSON bodies of those requests
WorkerBodies == [status : {<<" ">>, <<"resolved">>, <<" ", "closed">>}]

\* a worker with no request in hand
NoUpdate == [pc |-> "idle", table |-> "none", id |-> 0, data |-> [status |-> None]]

\* update_application refusing to overwrite a status another update wrote
update_application_mut_version_check(rows, app_id, data) ==
    LET status == strip(Or(data.status, <<>>))
    IN  IF ~Truthy(status)
        THEN [status |-> 400, rows |-> rows, id |-> app_id]
        ELSE IF \E i \in DOMAIN rows : rows[i].id = app_id /\ rows[i].status # SUBMITTED
        THEN [status |-> 409, rows |-> rows, id |-> app_id]
        ELSE [status |-> 200,
              rows |-> [i \in DOMAIN rows |->
                          IF rows[i].id = app_id
                          THEN [rows[i] EXCEPT !.status = status]
                          ELSE rows[i]],
              id |-> app_id]

\* PATCH /api/applications/<id>: UPDATE applications SET status = ? WHERE id = ?
update_application(rows, app_id, data) ==
    LET status == strip(Or(data.status, <<>>))
    IN  IF ~Truthy(status)
        THEN [status |-> 400, rows |-> rows, id |-> app_id]
        ELSE [status |-> 200,
              rows |-> [i \in DOMAIN rows |->
                          IF rows[i].id = app_id
                          THEN [rows[i] EXCEPT !.status = status]
                          ELSE rows[i]],
              id |-> app_id]

\* the handler the route of the request selects, on the table as it is now
run_update(table, id, data) ==
    IF table = "complaints"
    THEN update_complaint(complaints, id, data)
    ELSE update_application(applications, id, data)

update_op(table) ==
    IF table = "complaints" THEN "update_complaint" ELSE "update_application"

\* the handler up to get_db(): read the body, answer 400 on an empty status
UpdateBegin(w) ==
    /\ upd[w].pc = "idle"
    /\ \E table \in Tables, id \in WorkerIds, data \in WorkerBodies :
        IF run_update(table, id, data).status = 400
        THEN /\ db_resp' = [op |-> update_op(table), status |-> 400,
                            id |-> id, data |-> data]
             /\ UNCHANGED upd
        ELSE /\ upd' = [upd EXCEPT ![w] = [pc |-> "execute", table |-> table,
                                           id |-> id, data |-> data]]
             /\ UNCHANGED db_resp
    /\ UNCHANGED <<complaints, applications, services, last_write>>
    /\ UNCHANGED <<adapterVars, chatVars, historyVars>>

\* the UPDATE statement with its commit, then the response; last_write notes
\* the status of the statement applied last to an existing record
UpdateExecute(w) ==
    /\ upd[w].pc = "execute"
    /\ LET u == upd[w]
           r == run_update(u.table, u.id, u.data)
           rows == IF u.table = "complaints" THEN complaints ELSE applications
       IN  /\ IF u.table = "complaints"
              THEN complaints' = r.rows /\ UNCHANGED applications
              ELSE applications' = r.rows /\ UNCHANGED complaints
           /\ db_resp' = [op |-> update_op(u.table), status |-> r.status,
                          id |-> r.id, data |-> u.data]
           /\ last_write' =
                 IF \E i \in DOMAIN rows : rows[i].id = u.id
                 THEN [last_write EXCEPT ![u.table][u.id] = strip(u.data.status)]
                 ELSE last_write
    /\ upd' = [upd EXCEPT ![w] = NoUpdate]
    /\ UNCHANGED services
    /\ UNCHANGED <<adapterVars, chatVars, historyVars>>

NextConcurrent ==
    \/ CreateComplaint
    \/ Apply
    \/ \E w \in Workers : UpdateBegin(w)
    \/ \E w \in Workers : UpdateExecute(w)

----------------------------------------------------------------------------
(* Chat history: save_chat calls and GET /api/history *)

MaxTurns == 3

\* the session ids api_chat passes to save_chat: line 290 takes the request's
\* session_id as it is, or a generated one
HistorySessions == {<<"s">>, <<" ", "s">>, <<"u", "1">>}
HistoryReplies == {<<"a">>, <<"b">>}
\* the session_id query argument of GET /api/history (None: not given)
HistoryQueries == {None, <<" ">>, <<"s">>, <<" ", "s">>, <<"u", "1">>, <<"x">>}

NoHistResp == [status |-> 0, query |-> None, session_id |-> None, history |-> <<>>]

\* ORDER BY id ASC over the selected rows
RECURSIVE order_by_id_asc(_)
order_by_id_asc(S) ==
    IF S = {} THEN <<>>
    ELSE LET r == CHOOSE x \in S : \A y \in S : x.id <= y.id
         IN  <<r>> \o order_by_id_asc(S \ {r})

\* GET /api/history: SELECT * FROM chat_history WHERE session_id = ? ORDER BY
\* id ASC, for the stripped query argument
api_history(rows, arg) ==
    LET sid == strip(IF arg = None THEN <<>> ELSE arg)
    IN  IF ~Truthy(sid)
        THEN [NoHistResp EXCEPT !.status = 400, !.query = arg]
        ELSE [status |-> 200, query |-> arg, session_id |-> sid,
              history |-> order_by_id_asc(
                              {rows[i] : i \in {j \in DOMAIN rows :
                                                  rows[j].session_id = sid}})]

\* a call of save_chat: the INSERT commits, or it raises and nothing is stored
SaveChat ==
    /\ Len(chat_history) < MaxTurns
    /\ \E sid \in HistorySessions, bot_message \in HistoryReplies,
          committed \in BOOLEAN :
        chat_history' = IF committed
                        THEN save_chat(sid, <<"q">>, bot_message, EN, EN)
                        ELSE chat_history
    /\ UNCHANGED <<pc, req, session_id, source_language, target_language,
                   text_for_llm, bot_reply_en, final_reply, calls, saved, response>>
    /\ UNCHANGED <<adapterVars, storeVars, historyVars, workerVars>>

ApiHistory ==
    /\ \E arg \in HistoryQueries : hist_resp' = api_history(chat_history, arg)
    /\ UNCHANGED <<adapterVars, chatVars, storeVars, workerVars>>

NextHistory == SaveChat \/ ApiHistory

----------------------------------------------------------------------------
(* Specifications *)

Init ==
    /\ translator \in {"none", "uninitialized", "initialized"}
    /\ gemini_model \in {"none", "model"}
    /\ last = NoCall
    /\ fail_replies = {}
    /\ pc = "idle"
    /\ req = NoBody
    /\ session_id = None
    /\ source_language = None
    /\ target_language = None
    /\ text_for_llm = None
    /\ bot_reply_en = None
    /\ final_reply = None
    /\ calls = <<>>
    /\ saved = FALSE
    /\ response = NoResponse
    /\ chat_history = <<>>
    /\ complaints = <<>>
    /\ applications = <<>>
    /\ services = SEEDED_SERVICES
    /\ db_resp = NoDbResp
    /\ hist_resp = NoHistResp
    /\ upd = [w \in Workers |-> NoUpdate]
    /\ last_write = [t \in Tables |-> [i \in WorkerIds |-> None]]

NextEndpoints ==
    \/ ChatReceive
    \/ ChatResolveLanguages
    \/ ChatTranslateToEnglish
    \/ ChatGenerateReply
    \/ ChatTranslateToTarget
    \/ ChatPersist
    \/ ChatRespond
    \/ ChatFinish
    \/ ApiTranslate
    \/ Return

Next == NextAdapters \/ NextChat \/ NextStore \/ NextHistory \/ NextConcurrent

Spec == Init /\ [][Next]_vars
\* the adapters and the translate endpoint called on their own
SpecAdapters == Init /\ [][NextAdapters]_vars
\* chat requests, served one at a time
SpecChat == Init /\ [][NextChat]_vars
\* the chat and translate endpoints, requests served one at a time
SpecEndpoints == Init /\ [][NextEndpoints]_vars
\* the record store handlers, each a single statement
SpecStore == Init /\ [][NextStore]_vars
\* save_chat calls and history reads
SpecHistory == Init /\ [][NextHistory]_vars
\* status updates of several request threads interleaved at the statement
SpecConcurrent == Init /\ [][NextConcurrent]_vars

----------------------------------------------------------------------------
(* Properties *)

\* a field that is missing, empty or made of whitespace only
IsBlank(x) == x = None \/ \A i \in 1..Len(x) : IsSpace(x[i])

HasCall(c) == \E i \in DOMAIN calls : calls[i] = c

\* C1: translate_text(T, S, L) returns T unchanged, with no remote call and
\* no exception, whenever the target L is absent or S and L are the same code
\* up to letter case.
TranslateSameLanguage ==
    (last.op = "translate_text"
        /\ (last.target \in {None, <<>>} \/ lower(last.source) = lower(last.target)))
    => (last.out.val = last.text /\ last.out.remote = 0 /\ ~last.out.raised)

TranslateSameLanguageWitness ==
    /\ last.op = "translate_text"
    /\ translator = "initialized"
    /\ last.source = <<"H", "i">>
    /\ last.target = HI
    /\ last.text = <<" ", "q">>
    /\ last.out.val = <<" ", "q">>

\* C2: detect_language returns a code of exactly two characters and never
\* raises, whatever the remote model answers.
DetectLanguageTwoChars ==
    last.op = "detect_language" => (Len(last.out.val) = 2 /\ ~last.out.raised)

\* C3: a chat request with a non-empty message asks the chat adapter exactly
\* once, translates to English exactly once before that when the source
\* language is not "en" (never otherwise), and translates to the target
\* exactly once after that when the target language is not "en" (never
\* otherwise).
IsAdapterCall(c) == c \in {"translate_to_english", "ask_gemini", "translate_to_target"}

ChatCallOrder ==
    (pc = "done" /\ response.status = 200)
    => SelectSeq(calls, IsAdapterCall) =
          (IF source_language # EN THEN <<"translate_to_english">> ELSE <<>>)
          \o <<"ask_gemini">>
          \o (IF target_language # EN THEN <<"translate_to_target">> ELSE <<>>)

\* C4: creating a complaint whose issue is missing, empty or whitespace-only
\* answers 400 and leaves the complaints table as it was.
EmptyIssueRejected ==
    [][(db_resp'.op = "create_complaint" /\ IsBlank(db_resp'.data.issue))
        => (db_resp'.status = 400 /\ complaints' = complaints)]_vars

EmptyIssueRejectedWitness ==
    /\ db_resp.op = "create_complaint"
    /\ IsBlank(db_resp.data.issue)
    /\ db_resp.status = 400
    /\ Len(complaints) = 1

\* C5: an application (with its required fields) for a service_id that is not
\* in the services table answers 404, no application for an unknown service
\* inserts a row, and every stored application references a stored service.
RequiredPresent(form) ==
    ~IsBlank(form.service_id) /\ ~IsBlank(form.name) /\ ~IsBlank(form.email)
    /\ ~IsBlank(form.purpose)

UpdateMissingComplaint ==
    [][(db_resp'.op = "update_complaint" /\ ~IsBlank(db_resp'.data.status)
          /\ \A i \in DOMAIN complaints : complaints[i].id # db_resp'.id)
        => /\ db_resp'.status = 200
           /\ complaints' = complaints
           /\ \A i \in DOMAIN complaints' : complaints'[i].id # db_resp'.id]_vars

UpdateMissingComplaintWitness ==
    /\ db_resp.op = "update_complaint"
    /\ ~IsBlank(db_resp.data.status)
    /\ db_resp.status = 200
    /\ Len(complaints) = 1
    /\ \A i \in DOMAIN complaints : complaints[i].id # db_resp.id

\* C7 (as claimed): with the translation adapter unconfigured, the translate
\* endpoint asked for target "hi" with a non-empty text and another source
\* language returns the (trimmed) text prefixed with the Hindi fallback tag.
IsHindiRequest ==
    /\ last.op = "api_translate"
    /\ ~IsBlank(last.text)
    /\ last.out.source_language # HI
    /\ last.out.target_language = HI

UnconfiguredHindiFallback ==
    (IsHindiRequest /\ translator # "initialized")
    => last.out.val = MOCK_TAGS[HI] \o strip(last.text)

\* C7 (amended): the Hindi tag is the prefix when the adapter was constructed
\* without a credential; when no adapter could be constructed the prefix is
\* "[hi translation unavailable] ".  Either way the answer is 200 and no
\* remote call is made.
UnconfiguredHindiFallbackByCause ==
    (IsHindiRequest /\ translator # "initialized")
    => /\ last.status = 200
       /\ last.out.remote = 0
       /\ translator = "uninitialized"
            => last.out.val = MOCK_TAGS[HI] \o strip(last.text)
       /\ translator = "none"
            => last.out.val = UNAVAILABLE(HI) \o strip(last.text)

UnconfiguredHindiFallbackWitness ==
    /\ IsHindiRequest
    /\ translator = "uninitialized"
    /\ last.text = <<" ", "q">>
    /\ last.out.val = <<"[Hindi anuvad]", " ", "q">>

\* C8 (as claimed): every failed remote call of ask_gemini gets one and the
\* same reply.
AskFailureMessageFixed == Cardinality(fail_replies) <= 1

\* C8 (amended): ask_gemini never raises; unconfigured, it makes no remote
\* call and returns the fixed "not configured" message; when the remote call
\* fails it returns "[Gemini error] " followed by the text of the error.
AskGeminiNeverRaises ==
    /\ last.op = "ask_gemini"
         => /\ ~last.out.raised
            /\ gemini_model = "none"
                 => (last.out.val = GEMINI_NOT_CONFIGURED /\ last.out.remote = 0)
            /\ (gemini_model # "none" /\ last.g.raised)
                 => last.out.val = GEMINI_ERROR \o last.g.err
    /\ fail_replies \subseteq {GEMINI_ERROR \o e : e \in GeminiErrors}

AskGeminiNeverRaisesWitness ==
    /\ last.op = "ask_gemini"
    /\ gemini_model = "model"
    /\ last.g.raised
    /\ Cardinality(fail_replies) = 2

\* C9: a chat or translate request with a non-empty message/text is answered
\* 200 with a reply text, whichever adapter calls fail or are unconfigured;
\* no 500 is produced.
AdapterFaultsNever500 ==
    /\ (pc = "done" /\ ~IsBlank(req.message))
         => /\ response.status = 200
            /\ response.ok
            /\ response.bot_reply # None
    /\ (last.op = "api_translate" /\ ~IsBlank(last.text))
         => /\ last.status = 200
            /\ last.out.ok
            /\ last.out.val # None
    /\ response.status # 500
    /\ last.status # 500

AdapterFaultsNever500Witness ==
    /\ pc = "done"
    /\ translator = "initialized"
    /\ gemini_model = "model"
    /\ source_language = HI
    /\ HasCall("translate_to_english")
    /\ response.status = 200
    /\ response.bot_reply = GEMINI_ERROR \o <<"timeout">>

\* C10: once the reply is computed, the response is 200 with the session id,
\* the languages and the reply, the same whether save_chat committed or
\* failed.
PersistFailureInvisible ==
    (pc = "done" /\ HasCall("save_chat"))
    => /\ response.status = 200
       /\ response.session_id = session_id
       /\ response.source_language = source_language
       /\ response.target_language = target_language
       /\ response.bot_reply = final_reply
       /\ final_reply # None

PersistFailureInvisibleWitness ==
    /\ pc = "done"
    /\ HasCall("save_chat")
    /\ ~saved
    /\ chat_history = <<>>
    /\ response.status = 200

\* C11: the resolved source language is the explicit field when one is given
\* and detect_language's result otherwise; the resolved target language is
\* the explicit field when one is given, otherwise the source language,
\* otherwise "en", and it is never empty.
LanguagesResolved ==
    pc \in {"to_english", "generate", "to_target", "persist", "respond"}
    \/ (pc = "done" /\ response.status = 200)

ResolvedLanguages ==
    LanguagesResolved
    => /\ ~IsBlank(req.source_language)
            => /\ source_language = lower(strip(req.source_language))
               /\ ~HasCall("detect_language")
       /\ IsBlank(req.source_language) => HasCall("detect_language")
       /\ target_language =
              IF ~IsBlank(req.target_language)
              THEN lower(strip(req.target_language))
              ELSE IF Truthy(source_language) THEN source_language ELSE EN
       /\ target_language # <<>>

\* C12: a chat request with a missing or empty message leaves ReceiveRequest
\* with 400, having made no detection, translation or chat-adapter call and
\* appended no row; every other request goes through the stages in order,
\* asks the chat adapter, then persists, and is answered 200.
StageSteps ==
    {<<"idle", "resolve">>, <<"idle", "done">>, <<"resolve", "to_english">>,
     <<"to_english", "generate">>, <<"generate", "to_target">>,
     <<"to_target", "persist">>, <<"persist", "respond">>,
     <<"respond", "done">>, <<"done", "idle">>}

IsStageCall(c) == c \in {"ask_gemini", "save_chat"}

ChatStagesInOrder ==
    /\ [][/\ pc' # pc => <<pc, pc'>> \in StageSteps
          /\ (pc = "idle" /\ pc' = "done")
               => /\ IsBlank(req'.message)
                  /\ response'.status = 400
                  /\ calls' = <<>>
                  /\ chat_history' = chat_history
          /\ (pc = "idle" /\ pc' = "resolve") => ~IsBlank(req'.message)]_vars
    /\ [](pc = "done"
            => IF IsBlank(req.message)
               THEN response.status = 400 /\ calls = <<>> /\ ~saved
               ELSE /\ response.status = 200
                    /\ SelectSeq(calls, IsStageCall) = <<"ask_gemini", "save_chat">>)

ChatStagesInOrderWitness ==
    /\ pc = "done"
    /\ req.message = <<" ">>
    /\ response.status = 400
    /\ calls = <<>>

\* C13: the chat history is append-only (every stored turn stays stored with
\* unchanged fields); the history returned for a session id is exactly the
\* turns stored with that session id, oldest first; and a later read for the
\* same session id extends an earlier one as a prefix.
IsPrefix(a, b) == Len(a) <= Len(b) /\ \A i \in DOMAIN a : b[i] = a[i]

TurnsOf(sid) == LET Stored(r) == r.session_id = sid IN SelectSeq(chat_history, Stored)

HistoryAppendOnly ==
    /\ [][IsPrefix(chat_history, chat_history')]_vars
    /\ [][hist_resp' # hist_resp
            => /\ hist_resp'.status = 200
                    => hist_resp'.history = TurnsOf(hist_resp'.query)
               /\ TurnsOf(hist_resp'.query) # <<>> => hist_resp'.status = 200]_vars
    /\ [][(hist_resp.status = 200 /\ hist_resp'.status = 200
             /\ hist_resp'.query = hist_resp.query)
            => IsPrefix(hist_resp.history, hist_resp'.history)]_vars

\* C14: status updates on the same complaint or application id handled
\* concurrently are last-write-wins: in every interleaving the record's
\* status is the one written by the update whose statement was applied last
\* (a value some update wrote), and no update is rejected because of another
\* one: every update with a non-empty status is answered 200.
StatusOf(table, id) ==
    LET rows == IF table = "complaints" THEN complaints ELSE applications
    IN  {rows[i].status : i \in {j \in DOMAIN rows : rows[j].id = id}}

LastWriteWins ==
    /\ [](\A table \in Tables, id \in WorkerIds :
            last_write[table][id] # None
                => StatusOf(table, id) = {last_write[table][id]})
    /\ [][\A w \in Workers, table \in Tables, id \in WorkerIds :
            (upd[w].pc = "execute" /\ upd'[w].pc = "idle"
               /\ upd[w].table = table /\ upd[w].id = id)
                => /\ db_resp'.status = 200
                   /\ db_resp'.id = id
                   /\ StatusOf(table, id) # {}
                        => StatusOf(table, id)' = {strip(upd[w].data.status)}]_vars

\* two updates of one application in hand at once, with different statuses,
\* after an earlier update of it was applied
LastWriteWinsWitness ==
    /\ upd[1].pc = "execute" /\ upd[2].pc = "execute"
    /\ upd[1].table = "applications" /\ upd[2].table = "applications"
    /\ upd[1].id = 1 /\ upd[2].id = 1
    /\ strip(upd[1].data.status) # strip(upd[2].data.status)
    /\ db_resp.op = "update_application" /\ db_resp.status = 200
    /\ last_write["applications"][1] # None
    /\ StatusOf("applications", 1) = {last_write["applications"][1]}

\* C15: a complaint is mutable only through its status: whatever create,
\* list, get and status-update requests are served, every complaint keeps the
\* id, name, contact and issue it was created with (its status is "open" at
\* creation) and is never removed, and a status update on id X changes
\* nothing but the status of complaint X.
SameButStatus(a, b) ==
    a.id = b.id /\ a.name = b.name /\ a.contact = b.contact /\ a.issue = b.issue

ComplaintsOnlyStatusMutable ==
    [][/\ Len(complaints') >= Len(complaints)
       /\ \A i \in DOMAIN complaints : SameButStatus(complaints[i], complaints'[i])
       /\ \A i \in DOMAIN complaints' \ DOMAIN complaints :
            /\ complaints'[i].status = OPEN
            /\ db_resp'.op = "create_complaint" /\ db_resp'.status = 200
            /\ complaints'[i].id = db_resp'.id
            /\ complaints'[i].name = strip(Or(db_resp'.data.name, <<>>))
            /\ complaints'[i].contact = strip(Or(db_resp'.data.contact, <<>>))
            /\ complaints'[i].issue = strip(Or(db_resp'.data.issue, <<>>))
            /\ \A j \in DOMAIN complaints : complaints[j].id # complaints'[i].id
       /\ db_resp'.op = "update_complaint"
            => \A i \in DOMAIN complaints :
                 IF complaints[i].id = db_resp'.id /\ db_resp'.status = 200
                 THEN complaints'[i].status = strip(db_resp'.data.status)
                 ELSE complaints'[i] = complaints[i]
       /\ db_resp'.op \in {"get_complaint", "list_complaints"}
            => complaints' = complaints]_vars

\* an update of complaint 1 answered 200 with complaint 2 still open
ComplaintsOnlyStatusMutableWitness ==
    /\ db_resp.op = "update_complaint" /\ db_resp.status = 200 /\ db_resp.id = 1
    /\ Len(complaints) = 2
    /\ complaints[1].id = 1 /\ complaints[1].status = strip(db_resp.data.status)
    /\ complaints[1].issue = <<"p">>
    /\ complaints[2].id = 2 /\ complaints[2].status = OPEN

====
